---- MODULE Spec2Model ----
(***************************************************************************)
(* Model of the experiment-pipeline scripts of the ns-3 results tree:      *)
(*   results/og-sim-2/run_and_plot.py       (driver "og")                  *)
(*   results/tcp-multi-rtt/run_and_plot.py  (driver "mr")                  *)
(*   results/reno-equilibrium/run_and_plot.py (script "rn")                *)
(* The external simulator and the file system are the environment.         *)
(*                                                                         *)
(* Numbers read from files are modelled as exact integers (Python floats   *)
(* as exact rationals <<numerator, denominator>> where a division occurs). *)
(* The numeric fields of the og-sim-2 aggregate file are held in tenths.   *)
(***************************************************************************)
EXTENDS Integers, Sequences, FiniteSets, TLC

VARIABLES
    driver,          \* which script runs: "og" or "mr"
    matplotlib,      \* environment: matplotlib/numpy importable
    skip_sim,        \* og-sim-2: args.skip_sim
    HAS_MATPLOTLIB,  \* og-sim-2: module global set by the guarded import
    pc,              \* position of the script
    i,               \* index of the current loop over the variants
    simState,        \* per variant: state of its simulator subprocess
    success_count,   \* og: main's success_count
    simulation_success, \* mr: main's simulation_success dict
    disk,            \* per variant: the result files on disk
    results,         \* og: results dict (insertion-ordered)
    perflow_data,    \* og: perflow_data dict (insertion-ordered)
    all_results,     \* mr: all_results dict (insertion-ordered)
    out,             \* what the script has printed, called and written, in order
    exc,             \* uncaught exception that ended the script ("none" if none)
    exit_code,       \* process exit status (-1 while running)
    fn,              \* function-level specifications: function applied
    arg,             \* function-level specifications: its input
    ret              \* function-level specifications: its result

vars == <<driver, matplotlib, skip_sim, HAS_MATPLOTLIB, pc, i, simState,
          success_count, simulation_success, disk, results, perflow_data, all_results, out, exc, exit_code,
          fn, arg, ret>>

pipeVars == <<driver, matplotlib, skip_sim, HAS_MATPLOTLIB, pc, i, simState,
              success_count, simulation_success, disk, results, perflow_data, all_results, out, exc, exit_code>>

fnVars == <<fn, arg, ret>>

-----------------------------------------------------------------------------
(* Bounds of the model *)

MaxPerflowRows == 3    \* rows of an og-sim-2 per-flow file
MaxResultRows == 2     \* rows of a tcp-multi-rtt results file
MaxTput == 1           \* largest throughput literal in a results file
MaxParseRows == 3      \* rows of a file handed to a parser on its own
MaxStatFlows == 4      \* flows handed to calculate_stats on its own
MaxStatTput == 7       \* largest throughput handed to calculate_stats on its own

-----------------------------------------------------------------------------
(* Text fields and Python's numeric conversions *)

IntTok(n) == [kind |-> "int", val |-> n]       \* a literal such as "7"
FloatTok(n) == [kind |-> "float", val |-> n]   \* a literal such as "7.0"
JunkTok == [kind |-> "junk", val |-> 0]        \* text that is no number
HashTok == [kind |-> "hash", val |-> 0]        \* text starting with '#'

\* float(s) succeeds on integer and decimal literals
float_ok(tok) == tok.kind \in {"int", "float"}

\* int(s) succeeds on integer literals only: int("7.0") raises ValueError
int_ok(tok) == tok.kind = "int"

NoFile == [exists |-> FALSE, rows |-> <<>>]
File(rows) == [exists |-> TRUE, rows |-> rows]

\* Python's None and a returned value / a raised exception
Returned(v) == [exc |-> "none", none |-> FALSE, val |-> v]
ReturnedNone == [exc |-> "none", none |-> TRUE, val |-> <<>>]
Raised(e) == [exc |-> e, none |-> FALSE, val |-> <<>>]

\* mutant: "if flows is not None:", an empty list passes
TruthyNotNone(r) == r.exc = "none" /\ ~r.none

\* truth value of a parser result in "if flows:" / "if data:"
Truthy(r) == r.exc = "none" /\ ~r.none /\ r.val # <<>>

-----------------------------------------------------------------------------
(* Sequence helpers *)

RECURSIVE SumSeq(_)
SumSeq(s) == IF s = <<>> THEN 0 ELSE Head(s) + SumSeq(Tail(s))

MapSeq(s, Op(_)) == [k \in 1..Len(s) |-> Op(s[k])]

MinSeq(s) == CHOOSE x \in {s[k] : k \in 1..Len(s)} : \A k \in 1..Len(s) : x <= s[k]
MaxSeq(s) == CHOOSE x \in {s[k] : k \in 1..Len(s)} : \A k \in 1..Len(s) : x >= s[k]

-----------------------------------------------------------------------------
(* og-sim-2: parsers *)

\* the conversions of parse_csv succeed on the row
AggRowOK(row) ==
    /\ float_ok(row.Total_Throughput_Mbps)
    /\ float_ok(row.Avg_Throughput_Per_Flow_Mbps)
    /\ float_ok(row.Avg_Delay_ms)
    /\ float_ok(row.Total_Lost_Packets)
    /\ float_ok(row.Loss_Rate_Percent)
    /\ float_ok(row.Num_Flows)

AggRecord(row) ==
    [variant |-> row.TCP_Variant,
     total_throughput |-> row.Total_Throughput_Mbps.val,
     avg_throughput |-> row.Avg_Throughput_Per_Flow_Mbps.val,
     avg_delay |-> row.Avg_Delay_ms.val,
     total_lost |-> row.Total_Lost_Packets.val,
     loss_rate |-> row.Loss_Rate_Percent.val,
     num_flows |-> row.Num_Flows.val]

\* parse_csv: the first data row only; any exception (no file, no row, a
\* failed conversion) is caught, reported and turned into None
parse_csv(file) ==
    IF ~file.exists \/ file.rows = <<>> \/ ~AggRowOK(file.rows[1])
    THEN ReturnedNone
    ELSE Returned(<<AggRecord(file.rows[1])>>)

PerflowRowOK(row) ==
    int_ok(row.Flow_ID) /\ float_ok(row.Throughput_Mbps) /\ float_ok(row.Delay_ms)

PerflowRecord(row) ==
    [flow_id |-> row.Flow_ID.val,
     throughput |-> row.Throughput_Mbps.val,
     delay |-> row.Delay_ms.val]

\* parse_perflow_csv: the try block encloses the whole loop, so one failing
\* row discards every row and the function returns None
parse_perflow_csv(file) ==
    IF ~file.exists \/ \E k \in 1..Len(file.rows) : ~PerflowRowOK(file.rows[k])
    THEN ReturnedNone
    ELSE Returned(MapSeq(file.rows, PerflowRecord))

-----------------------------------------------------------------------------
(* tcp-multi-rtt: parsers and statistics *)

ResultRowOK(row) ==
    /\ int_ok(row.Flow_ID)
    /\ int_ok(row.RTT_ms)
    /\ float_ok(row.Throughput_Mbps)
    /\ float_ok(row.Data_Received_MB)
    /\ float_ok(row.Avg_Delay_ms)
    /\ float_ok(row.Loss_Rate_Percent)

ResultRecord(row) ==
    [flow_id |-> row.Flow_ID.val,
     rtt_ms |-> row.RTT_ms.val,
     throughput |-> row.Throughput_Mbps.val,
     data_mb |-> row.Data_Received_MB.val,
     avg_delay |-> row.Avg_Delay_ms.val,
     loss_rate |-> row.Loss_Rate_Percent.val]

\* mutant: the os.path.exists check is missing, open() raises
read_results_unchecked(file) ==
    IF ~file.exists THEN Raised("FileNotFoundError")
    ELSE IF \E k \in 1..Len(file.rows) : ~ResultRowOK(file.rows[k])
         THEN Raised("ValueError")
         ELSE Returned(MapSeq(file.rows, ResultRecord))

\* read_results: None for a missing file; no try block, so a failing
\* conversion propagates as ValueError
read_results(file) ==
    IF ~file.exists THEN ReturnedNone
    ELSE IF \E k \in 1..Len(file.rows) : ~ResultRowOK(file.rows[k])
         THEN Raised("ValueError")
         ELSE Returned(MapSeq(file.rows, ResultRecord))

\* a line of a .dat file is the sequence of its whitespace-separated parts
CwndLineUsed(line) ==
    /\ ~(Len(line) > 0 /\ line[1].kind = "hash")
    /\ Len(line) = 2

First(line) == line[1].val
Second(line) == line[2].val

\* read_cwnd_data: (None, None) for a missing file; comment lines and lines
\* that do not have two parts are skipped; float() is not guarded
read_cwnd_data(file) ==
    IF ~file.exists THEN ReturnedNone
    ELSE LET used == SelectSeq(file.rows, CwndLineUsed)
         IN IF \E k \in 1..Len(used) : ~(float_ok(used[k][1]) /\ float_ok(used[k][2]))
            THEN Raised("ValueError")
            ELSE Returned([times |-> MapSeq(used, First),
                           cwnds |-> MapSeq(used, Second)])

Throughput(f) == f.throughput
LossRate(f) == f.loss_rate
Square(x) == x * x

\* mutant: the flow count is left out of the fairness denominator
calculate_stats_no_count(flows) ==
    LET throughputs == MapSeq(flows, Throughput)
        loss_rates == MapSeq(flows, LossRate)
        total == SumSeq(throughputs)
        n == Len(throughputs)
        sum_squared == SumSeq(MapSeq(throughputs, Square))
    IN IF n = 0 THEN Raised("ZeroDivisionError")
       ELSE IF sum_squared = 0 THEN Raised("ZeroDivisionError")
       ELSE Returned([total |-> total,
                      avg |-> <<total, n>>,
                      min |-> MinSeq(throughputs),
                      max |-> MaxSeq(throughputs),
                      fairness |-> <<total * total, sum_squared>>,
                      avg_loss |-> <<SumSeq(loss_rates), n>>])

\* calculate_stats: averages and Jain's index as exact fractions <<p, q>>;
\* total / len(throughputs) and the fairness division raise ZeroDivisionError
\* on a zero divisor
calculate_stats(flows) ==
    LET throughputs == MapSeq(flows, Throughput)
        loss_rates == MapSeq(flows, LossRate)
        total == SumSeq(throughputs)
        n == Len(throughputs)
        sum_squared == SumSeq(MapSeq(throughputs, Square))
    IN IF n = 0 THEN Raised("ZeroDivisionError")
       ELSE IF n * sum_squared = 0 THEN Raised("ZeroDivisionError")
       ELSE Returned([total |-> total,
                      avg |-> <<total, n>>,
                      min |-> MinSeq(throughputs),
                      max |-> MaxSeq(throughputs),
                      fairness |-> <<total * total, n * sum_squared>>,
                      avg_loss |-> <<SumSeq(loss_rates), n>>])

-----------------------------------------------------------------------------
(* reno-equilibrium: parser *)

CwndTimeKept(line) == Len(line) = 2 /\ float_ok(line[1])
CwndValueKept(line) == Len(line) = 2 /\ float_ok(line[1]) /\ int_ok(line[2])

\* mutant: a missing file gives two empty lists
parse_cwnd_file_lenient(file) ==
    IF ~file.exists THEN Returned([times |-> <<>>, cwnds |-> <<>>])
    ELSE Returned([times |-> MapSeq(SelectSeq(file.rows, CwndTimeKept), First),
                   cwnds |-> MapSeq(SelectSeq(file.rows, CwndValueKept), Second)])

\* parse_cwnd_file: exit(1) for a missing file; per line, a ValueError from
\* the unpacking or from a conversion is swallowed.  times.append(float(t))
\* runs before int(cwnd) is attempted, so a line whose second field fails
\* int() leaves its time in times
parse_cwnd_file(file) ==
    IF ~file.exists THEN Raised("SystemExit")
    ELSE Returned([times |-> MapSeq(SelectSeq(file.rows, CwndTimeKept), First),
                   cwnds |-> MapSeq(SelectSeq(file.rows, CwndValueKept), Second)])

-----------------------------------------------------------------------------
(* Insertion-ordered dicts: sequences of entries [k, v] *)

Entry(k, v) == [k |-> k, v |-> v]
KeyOf(e) == e.k
Keys(d) == MapSeq(d, KeyOf)
Has(d, k) == \E n \in 1..Len(d) : d[n].k = k
Get(d, k) == d[CHOOSE n \in 1..Len(d) : d[n].k = k].v
InSeq(s, x) == \E n \in 1..Len(s) : s[n] = x

-----------------------------------------------------------------------------
(* Configuration sets and the files the simulator leaves on disk *)

TCP_VARIANTS == <<"LinuxReno", "Fast">>        \* og-sim-2
variants == <<"TcpLinuxReno", "TcpFast">>      \* tcp-multi-rtt, main
Drivers == {"og", "mr"}
Variants(d) == IF d = "og" THEN TCP_VARIANTS ELSE variants
VariantSet(d) == {Variants(d)[n] : n \in 1..Len(Variants(d))}

\* a row of <variant>_fanout.csv; numeric fields in tenths
AggRow(name, total, delay, loss) ==
    [TCP_Variant |-> name,
     Total_Throughput_Mbps |-> FloatTok(total),
     Avg_Throughput_Per_Flow_Mbps |-> FloatTok(total),
     Avg_Delay_ms |-> FloatTok(delay),
     Total_Lost_Packets |-> IntTok(0),
     Loss_Rate_Percent |-> FloatTok(loss),
     Num_Flows |-> IntTok(3)]

BadAggRow(name) ==
    [AggRow(name, 0, 0, 0) EXCEPT !.Avg_Delay_ms = JunkTok]

AggFiles(name) ==
    {NoFile,
     File(<<BadAggRow(name)>>),
     File(<<AggRow(name, 100, 200, 10)>>),
     File(<<AggRow(name, 120, 180, 5)>>),
     File(<<AggRow(name, 0, 0, 0)>>)}

\* rows of <variant>_perflow.csv
PerflowRow(k) ==
    [Flow_ID |-> IntTok(k), Throughput_Mbps |-> FloatTok(k), Delay_ms |-> FloatTok(10 * k)]

BadPerflowRow(k) == [PerflowRow(k) EXCEPT !.Throughput_Mbps = JunkTok]

PerflowFiles ==
    {NoFile}
    \cup {File([k \in 1..n |-> PerflowRow(k)]) : n \in 0..MaxPerflowRows}
    \cup {File([k \in 1..MaxPerflowRows |->
                   IF k = 2 THEN BadPerflowRow(k) ELSE PerflowRow(k)])}

\* rows of <variant>_results.csv; flow k has RTT 50 * k ms
ResultRow(k, tput) ==
    [Flow_ID |-> IntTok(k - 1),
     RTT_ms |-> IntTok(50 * k),
     Throughput_Mbps |-> FloatTok(tput),
     Data_Received_MB |-> FloatTok(tput),
     Avg_Delay_ms |-> FloatTok(50 * k),
     Loss_Rate_Percent |-> FloatTok(0)]

BadResultRow(k) == [ResultRow(k, 0) EXCEPT !.Throughput_Mbps = JunkTok]

GoodResultRows ==
    UNION {{[k \in 1..n |-> ResultRow(k, t[k])] : t \in [1..n -> 0..MaxTput]} :
           n \in 0..MaxResultRows}

ResultFiles ==
    {NoFile}
    \cup {File(rows) : rows \in GoodResultRows}
    \cup {File([rows EXCEPT ![Len(rows)] = BadResultRow(Len(rows))]) :
          rows \in GoodResultRows \ {<<>>}}

\* the files of one variant that a driver reads
DiskFiles(d, name) ==
    IF d = "og"
    THEN {[agg |-> a, perflow |-> p, results |-> NoFile] :
          a \in AggFiles(name), p \in PerflowFiles}
    ELSE {[agg |-> NoFile, perflow |-> NoFile, results |-> r] : r \in ResultFiles}

\* contents of a <variant>_flow<k>_cwnd.dat file at the time it is read
CwndFiles ==
    {NoFile,
     File(<<<<HashTok, JunkTok>>, <<FloatTok(0), FloatTok(10)>>>>),
     File(<<<<FloatTok(0), JunkTok>>>>)}

-----------------------------------------------------------------------------
(* The pipeline drivers: initial state *)

Ev(ev, v, data) == [ev |-> ev, v |-> v, data |-> data]

FnIdle == fn = "none" /\ arg = <<>> /\ ret = <<>>

Init ==
    /\ driver \in Drivers
    /\ matplotlib \in BOOLEAN
    /\ skip_sim \in (IF driver = "og" THEN BOOLEAN ELSE {FALSE})
    /\ HAS_MATPLOTLIB = FALSE
    /\ pc = "start"
    /\ i = 1
    /\ simState = [v \in VariantSet(driver) |-> "notrun"]
    /\ success_count = 0
    /\ simulation_success = <<>>
    /\ disk \in {dk \in [VariantSet(driver) ->
                           UNION {DiskFiles(driver, v) : v \in VariantSet(driver)}] :
                 \A v \in VariantSet(driver) : dk[v] \in DiskFiles(driver, v)}
    /\ results = <<>>
    /\ perflow_data = <<>>
    /\ all_results = <<>>
    /\ out = <<>>
    /\ exc = "none"
    /\ exit_code = -1
    /\ FnIdle

\* an uncaught exception ends the interpreter with status 1
Crash(e) == pc' = "crashed" /\ exc' = e /\ exit_code' = 1

N == Len(Variants(driver))

\* mutant: the loops walk the declared list backwards
CurrentReversed == Variants(driver)[N + 1 - i]

Current == Variants(driver)[i]

-----------------------------------------------------------------------------
(* Start-up: imports and argument parsing *)

\* mutant: args.skip_sim is not consulted
OgStartIgnoresFlag ==
    /\ driver = "og" /\ pc = "start"
    /\ HAS_MATPLOTLIB' = matplotlib
    /\ out' = IF matplotlib THEN out ELSE Append(out, Ev("warn_no_matplotlib", "", <<>>))
    /\ pc' = "run_loop"
    /\ UNCHANGED <<driver, matplotlib, skip_sim, i, simState, success_count,
                   simulation_success, disk, results, perflow_data, all_results,
                   exc, exit_code, fnVars>>

\* og-sim-2: the import of matplotlib is guarded and sets HAS_MATPLOTLIB
OgStart ==
    /\ driver = "og" /\ pc = "start"
    /\ HAS_MATPLOTLIB' = matplotlib
    /\ out' = IF matplotlib THEN out ELSE Append(out, Ev("warn_no_matplotlib", "", <<>>))
    /\ pc' = IF skip_sim THEN "load_agg" ELSE "run_loop"
    /\ UNCHANGED <<driver, matplotlib, skip_sim, i, simState, success_count,
                   simulation_success, disk, results, perflow_data, all_results,
                   exc, exit_code, fnVars>>

\* tcp-multi-rtt: the import of matplotlib is not guarded
MrStart ==
    /\ driver = "mr" /\ pc = "start"
    /\ IF matplotlib
       THEN pc' = "run_loop" /\ UNCHANGED <<exc, exit_code>>
       ELSE Crash("ImportError")
    /\ UNCHANGED <<driver, matplotlib, skip_sim, HAS_MATPLOTLIB, i, simState,
                   success_count, simulation_success, disk, results, perflow_data,
                   all_results, out, fnVars>>

-----------------------------------------------------------------------------
(* STEP 1: running the simulator, one variant at a time *)

\* run_simulation up to the call of subprocess.run
RunSimulationCall ==
    /\ pc = "run_loop" /\ i <= N
    /\ simState' = [simState EXCEPT ![Current] = "running"]
    /\ out' = Append(out, Ev("run_simulation", Current, <<>>))
    /\ pc' = "in_run"
    /\ UNCHANGED <<driver, matplotlib, skip_sim, HAS_MATPLOTLIB, i, success_count,
                   simulation_success, disk, results, perflow_data, all_results,
                   exc, exit_code, fnVars>>

\* environment: the simulator process exits; a run that exits 0 has
\* rewritten the variant's result files
SimulatorExits ==
    \E v \in VariantSet(driver) :
        /\ simState[v] = "running"
        /\ \/ /\ simState' = [simState EXCEPT ![v] = "ok"]
              /\ \E files \in DiskFiles(driver, v) : disk' = [disk EXCEPT ![v] = files]
           \/ /\ simState' = [simState EXCEPT ![v] = "nonzero"]
              /\ UNCHANGED disk
        /\ UNCHANGED <<driver, matplotlib, skip_sim, HAS_MATPLOTLIB, pc, i,
                       success_count, simulation_success, results, perflow_data,
                       all_results, out, exc, exit_code, fnVars>>

\* environment: ./ns3 cannot be executed
SimulatorLaunchFails ==
    \E v \in VariantSet(driver) :
        /\ simState[v] = "running"
        /\ simState' = [simState EXCEPT ![v] = "launch_error"]
        /\ UNCHANGED <<driver, matplotlib, skip_sim, HAS_MATPLOTLIB, pc, i,
                       success_count, simulation_success, disk, results,
                       perflow_data, all_results, out, exc, exit_code, fnVars>>

\* og-sim-2 passes timeout=300: at expiry subprocess.run kills the child and
\* raises TimeoutExpired.  tcp-multi-rtt passes no timeout.
SimulatorTimesOut ==
    \E v \in VariantSet(driver) :
        /\ driver = "og"
        /\ simState[v] = "running"
        /\ simState' = [simState EXCEPT ![v] = "timeout"]
        /\ UNCHANGED <<driver, matplotlib, skip_sim, HAS_MATPLOTLIB, pc, i,
                       success_count, simulation_success, disk, results,
                       perflow_data, all_results, out, exc, exit_code, fnVars>>

\* mutant: the child is started without waiting for it (Popen)
SubprocessReturnedEarly(st) == st \in {"running", "ok", "nonzero", "timeout", "launch_error"}

\* subprocess.run blocks until the child has an outcome
SubprocessReturned(st) == st \in {"ok", "nonzero", "timeout", "launch_error"}

\* mutant: only CalledProcessError is caught, as in tcp-multi-rtt
run_simulation_og_uncaught(outcome) ==
    IF outcome \in {"ok", "nonzero"} THEN Returned(<<outcome = "ok">>)
    ELSE Raised(IF outcome = "timeout" THEN "TimeoutExpired" ELSE "OSError")

\* og-sim-2 run_simulation: every exception of subprocess.run is caught
run_simulation_og(outcome) == Returned(<<outcome = "ok">>)

\* tcp-multi-rtt run_simulation: only CalledProcessError is caught
run_simulation_mr(outcome) ==
    IF outcome = "ok" THEN Returned(<<TRUE>>)
    ELSE IF outcome = "nonzero" THEN Returned(<<FALSE>>)
    ELSE Raised("OSError")

OgRunSimulationReturn ==
    /\ driver = "og" /\ pc = "in_run"
    /\ SubprocessReturned(simState[Current])
    /\ LET r == run_simulation_og(simState[Current])
       IN IF r.exc # "none"
          THEN /\ Crash(r.exc)
               /\ UNCHANGED <<i, success_count, out>>
          ELSE /\ out' = Append(out, Ev("sim_report", Current, <<simState[Current]>>))
               /\ success_count' = IF r.val[1] THEN success_count + 1 ELSE success_count
               /\ i' = i + 1
               /\ pc' = "run_loop"
               /\ UNCHANGED <<exc, exit_code>>
    /\ UNCHANGED <<driver, matplotlib, skip_sim, HAS_MATPLOTLIB, simState,
                   simulation_success, disk, results, perflow_data, all_results,
                   fnVars>>

MrRunSimulationReturn ==
    /\ driver = "mr" /\ pc = "in_run"
    /\ SubprocessReturned(simState[Current])
    /\ LET r == run_simulation_mr(simState[Current])
       IN IF r.exc # "none"
          THEN /\ Crash(r.exc)
               /\ UNCHANGED <<i, simulation_success, out>>
          ELSE /\ simulation_success' = Append(simulation_success, Entry(Current, r.val[1]))
               /\ out' = Append(out, Ev("sim_report", Current, <<simState[Current]>>))
               /\ i' = i + 1
               /\ pc' = "run_loop"
               /\ UNCHANGED <<exc, exit_code>>
    /\ UNCHANGED <<driver, matplotlib, skip_sim, HAS_MATPLOTLIB, simState,
                   success_count, disk, results, perflow_data, all_results, fnVars>>

\* og-sim-2: after the loop only the count is printed
OgRunLoopExit ==
    /\ driver = "og" /\ pc = "run_loop" /\ i > N
    /\ out' = Append(out, Ev("sim_summary", "", <<success_count>>))
    /\ pc' = "load_agg"
    /\ i' = 1
    /\ UNCHANGED <<driver, matplotlib, skip_sim, HAS_MATPLOTLIB, simState,
                   success_count, simulation_success, disk, results, perflow_data,
                   all_results, exc, exit_code, fnVars>>

\* all(simulation_success.values())
AllSucceeded(d) == \A n \in 1..Len(d) : d[n].v

\* tcp-multi-rtt: "Some simulations failed. Exiting." and return 1
MrRunLoopExit ==
    /\ driver = "mr" /\ pc = "run_loop" /\ i > N
    /\ IF ~AllSucceeded(simulation_success)
       THEN /\ out' = Append(out, Ev("some_simulations_failed", "", <<>>))
            /\ pc' = "done"
            /\ exit_code' = 1
            /\ UNCHANGED i
       ELSE /\ pc' = "load_results"
            /\ i' = 1
            /\ UNCHANGED <<out, exit_code>>
    /\ UNCHANGED <<driver, matplotlib, skip_sim, HAS_MATPLOTLIB, simState,
                   success_count, simulation_success, disk, results, perflow_data,
                   all_results, exc, fnVars>>

-----------------------------------------------------------------------------
(* og-sim-2 STEP 2: loading results *)

\* os.path.exists(path)
FileExists(file) == file.exists

\* one iteration of "for variant in TCP_VARIANTS" over the aggregate files
OgLoadAggregate ==
    /\ driver = "og" /\ pc = "load_agg"
    /\ LET file == disk[Current].agg
           data == parse_csv(file)
       IN IF FileExists(file)
          THEN IF ~data.none
               THEN /\ results' = Append(results, Entry(Current, data.val[1]))
                    /\ out' = out \o <<Ev("open", Current, <<"agg">>),
                                       Ev("loaded", Current, <<"agg">>)>>
               ELSE /\ out' = out \o <<Ev("open", Current, <<"agg">>),
                                       Ev("parse_error", Current, <<"agg">>)>>
                    /\ UNCHANGED results
          ELSE /\ out' = Append(out, Ev("not_found", Current, <<"agg">>))
               /\ UNCHANGED results
    /\ IF i = N THEN pc' = "load_perflow" /\ i' = 1
                ELSE pc' = pc /\ i' = i + 1
    /\ UNCHANGED <<driver, matplotlib, skip_sim, HAS_MATPLOTLIB, simState,
                   success_count, simulation_success, disk, perflow_data,
                   all_results, exc, exit_code, fnVars>>

\* one iteration of "for variant in TCP_VARIANTS" over the per-flow files
OgLoadPerflow ==
    /\ driver = "og" /\ pc = "load_perflow"
    /\ LET file == disk[Current].perflow
           flows == parse_perflow_csv(file)
       IN IF FileExists(file)
          THEN IF Truthy(flows)
               THEN /\ perflow_data' = Append(perflow_data, Entry(Current, flows.val))
                    /\ out' = out \o <<Ev("open", Current, <<"perflow">>),
                                       Ev("loaded", Current, <<"perflow">>)>>
               ELSE /\ out' = out \o
                          (IF flows.none
                           THEN <<Ev("open", Current, <<"perflow">>),
                                  Ev("parse_error", Current, <<"perflow">>)>>
                           ELSE <<Ev("open", Current, <<"perflow">>)>>)
                    /\ UNCHANGED perflow_data
          ELSE /\ out' = Append(out, Ev("not_found", Current, <<"perflow">>))
               /\ UNCHANGED perflow_data
    /\ IF i = N THEN pc' = "check_results" /\ i' = 1
                ELSE pc' = pc /\ i' = i + 1
    /\ UNCHANGED <<driver, matplotlib, skip_sim, HAS_MATPLOTLIB, simState,
                   success_count, simulation_success, disk, results,
                   all_results, exc, exit_code, fnVars>>

\* mutant: the emptiness check is missing
NoResultsNever(d) == FALSE

\* "if not results:" / "if not all_results:"
NoResults(d) == d = <<>>

\* og-sim-2: "No results found! Run simulations first." and a bare return
OgCheckResults ==
    /\ driver = "og" /\ pc = "check_results"
    /\ IF NoResults(results)
       THEN /\ out' = Append(out, Ev("no_results", "", <<>>))
            /\ pc' = "done"
            /\ exit_code' = 0
       ELSE /\ pc' = "print_summary"
            /\ UNCHANGED <<out, exit_code>>
    /\ UNCHANGED <<driver, matplotlib, skip_sim, HAS_MATPLOTLIB, i, simState,
                   success_count, simulation_success, disk, results, perflow_data,
                   all_results, exc, fnVars>>

-----------------------------------------------------------------------------
(* og-sim-2: summary and plots *)

\* the variants of the declared list that are keys of dict d, in list order
Present(vs, d) == SelectSeq(vs, LAMBDA v : Has(d, v))

\* mutant: the row loop stops after the first declared variant
SummaryRowsFirst(res) ==
    IF Has(res, TCP_VARIANTS[1])
    THEN <<Ev("summary_row", TCP_VARIANTS[1], <<Get(res, TCP_VARIANTS[1])>>)>>
    ELSE <<>>

\* print_summary: one table row per variant of TCP_VARIANTS found in results
SummaryRows(res) ==
    [n \in 1..Len(Present(TCP_VARIANTS, res)) |->
        Ev("summary_row", Present(TCP_VARIANTS, res)[n],
           <<Get(res, Present(TCP_VARIANTS, res)[n])>>)]

\* the table: its heading, then the rows
SummaryTable(res) == <<Ev("summary_table", "", <<>>)>> \o SummaryRows(res)

\* the comparison block is entered only when both variants are loaded
Comparable(res) == Has(res, "LinuxReno") /\ Has(res, "Fast")

\* mutant: the baseline is subtracted from, not subtracted
PercentDiffSwapped(a, b) == <<(a - b) * 100, a>>

\* (b - a) / a * 100 as a fraction
PercentDiff(a, b) == <<(b - a) * 100, a>>

\* (b - a) / (a + 0.001) * 100 as a fraction, a and b in tenths
LossPercentDiff(a, b) == <<(b - a) * 10000, 100 * a + 1>>

Comparison(res) ==
    LET base == Get(res, "LinuxReno")
        fast == Get(res, "Fast")
    IN IF base.total_throughput = 0 \/ base.avg_delay = 0
       THEN Raised("ZeroDivisionError")
       ELSE Returned(<<PercentDiff(base.total_throughput, fast.total_throughput),
                       PercentDiff(base.avg_delay, fast.avg_delay),
                       LossPercentDiff(base.loss_rate, fast.loss_rate)>>)

\* f"{x:+.1f}": the fraction x rounded to one decimal, held in tenths
FormatTenths(x) == (20 * x[1] + x[2]) \div (2 * x[2])

\* the three "Throughput/Delay/Loss Rate: +x.x%" lines
ComparisonLines(diffs) ==
    Ev("comparison_lines", "", MapSeq(diffs, FormatTenths))

print_summary ==
    /\ driver = "og" /\ pc = "print_summary"
    /\ IF Comparable(results)
       THEN IF Comparison(results).exc # "none"
            THEN /\ out' = out \o SummaryTable(results)
                 /\ Crash(Comparison(results).exc)
            ELSE /\ out' = out \o SummaryTable(results)
                             \o <<Ev("comparison", "", Comparison(results).val),
                                  ComparisonLines(Comparison(results).val)>>
                 /\ pc' = IF HAS_MATPLOTLIB THEN "plot_aggregate" ELSE "finish"
                 /\ UNCHANGED <<exc, exit_code>>
       ELSE /\ out' = out \o SummaryTable(results)
            /\ pc' = IF HAS_MATPLOTLIB THEN "plot_aggregate" ELSE "finish"
            /\ UNCHANGED <<exc, exit_code>>
    /\ UNCHANGED <<driver, matplotlib, skip_sim, HAS_MATPLOTLIB, i, simState,
                   success_count, simulation_success, disk, results, perflow_data,
                   all_results, fnVars>>

\* generate_aggregate_plots: bars for the variants of TCP_VARIANTS in results
generate_aggregate_plots ==
    /\ driver = "og" /\ pc = "plot_aggregate"
    /\ out' = IF Present(TCP_VARIANTS, results) = <<>>
              THEN Append(out, Ev("no_data_to_plot", "", <<>>))
              ELSE Append(out, Ev("chart", "tcp_comparison_aggregate",
                                  Present(TCP_VARIANTS, results)))
    /\ pc' = "plot_perflow"
    /\ UNCHANGED <<driver, matplotlib, skip_sim, HAS_MATPLOTLIB, i, simState,
                   success_count, simulation_success, disk, results, perflow_data,
                   all_results, exc, exit_code, fnVars>>

PerflowIndices == 3    \* flow_indices = [0, 1, 2]

\* generate_perflow_comparison_plots: indexes flows 0..2 of every variant of
\* perflow_data; both images are saved after the loops over the variants
generate_perflow_comparison_plots ==
    /\ driver = "og" /\ pc = "plot_perflow"
    /\ IF perflow_data = <<>>
       THEN /\ pc' = "plot_cwnd"
            /\ UNCHANGED <<out, exc, exit_code>>
       ELSE IF \E n \in 1..Len(perflow_data) : Len(perflow_data[n].v) < PerflowIndices
            THEN /\ Crash("IndexError")
                 /\ UNCHANGED out
            ELSE /\ out' = out \o
                       <<Ev("chart", "throughput_comparison_flows", Keys(perflow_data)),
                         Ev("chart", "delay_comparison_flows", Keys(perflow_data))>>
                 /\ pc' = "plot_cwnd"
                 /\ UNCHANGED <<exc, exit_code>>
    /\ UNCHANGED <<driver, matplotlib, skip_sim, HAS_MATPLOTLIB, i, simState,
                   success_count, simulation_success, disk, results, perflow_data,
                   all_results, fnVars>>

\* generate_cwnd_plots: one image per key of results; a missing or unreadable
\* trace file leaves its subplot empty
generate_cwnd_plots ==
    /\ driver = "og" /\ pc = "plot_cwnd"
    /\ out' = out \o [n \in 1..Len(results) |->
                         Ev("chart", "cwnd_progress", <<results[n].k>>)]
    /\ pc' = "finish"
    /\ UNCHANGED <<driver, matplotlib, skip_sim, HAS_MATPLOTLIB, i, simState,
                   success_count, simulation_success, disk, results, perflow_data,
                   all_results, exc, exit_code, fnVars>>

\* main returns None: the interpreter exits with status 0
OgFinish ==
    /\ driver = "og" /\ pc = "finish"
    /\ out' = Append(out, Ev("done", "", <<>>))
    /\ pc' = "done"
    /\ exit_code' = 0
    /\ UNCHANGED <<driver, matplotlib, skip_sim, HAS_MATPLOTLIB, i, simState,
                   success_count, simulation_success, disk, results, perflow_data,
                   all_results, exc, fnVars>>

-----------------------------------------------------------------------------
(* tcp-multi-rtt STEP 2: loading results, tables, analysis *)

\* one iteration of "for variant in variants": read_results, calculate_stats
MrLoadResults ==
    /\ driver = "mr" /\ pc = "load_results"
    /\ LET file == disk[Current].results
           flows == read_results(file)
           stats == calculate_stats(flows.val)
       IN IF flows.exc # "none"
          THEN /\ Crash(flows.exc)
               /\ out' = Append(out, Ev("open", Current, <<"results">>))
               /\ UNCHANGED <<all_results, i>>
          ELSE IF ~Truthy(flows)
          THEN /\ out' = Append(out, IF flows.none
                                     THEN Ev("not_found", Current, <<"results">>)
                                     ELSE Ev("open", Current, <<"results">>))
               /\ UNCHANGED <<all_results, exc, exit_code>>
               /\ IF i = N THEN pc' = "check_results" /\ i' = 1
                           ELSE pc' = pc /\ i' = i + 1
          ELSE IF stats.exc # "none"
          THEN /\ Crash(stats.exc)
               /\ out' = Append(out, Ev("open", Current, <<"results">>))
               /\ UNCHANGED <<all_results, i>>
          ELSE /\ all_results' = Append(all_results,
                                        Entry(Current, [flows |-> flows.val,
                                                        stats |-> stats.val]))
               /\ out' = out \o <<Ev("open", Current, <<"results">>),
                                  Ev("loaded", Current, <<"results">>)>>
               /\ UNCHANGED <<exc, exit_code>>
               /\ IF i = N THEN pc' = "check_results" /\ i' = 1
                           ELSE pc' = pc /\ i' = i + 1
    /\ UNCHANGED <<driver, matplotlib, skip_sim, HAS_MATPLOTLIB, simState,
                   success_count, simulation_success, disk, results, perflow_data,
                   fnVars>>

\* tcp-multi-rtt: "No results found. Check simulation output." and return 1
MrCheckResults ==
    /\ driver = "mr" /\ pc = "check_results"
    /\ IF NoResults(all_results)
       THEN /\ out' = Append(out, Ev("no_results", "", <<>>))
            /\ pc' = "done"
            /\ exit_code' = 1
       ELSE /\ pc' = "print_tables"
            /\ UNCHANGED <<out, exit_code>>
    /\ UNCHANGED <<driver, matplotlib, skip_sim, HAS_MATPLOTLIB, i, simState,
                   success_count, simulation_success, disk, results, perflow_data,
                   all_results, exc, fnVars>>

\* num_flows = len(list(all_results.values())[0]['flows'])
NumFlows(res) == Len(res[1].v.flows)

\* flows[i] for i in range(num_flows) is out of range for a shorter variant
ShortVariant(res) == res # <<>> /\ \E n \in 1..Len(res) : Len(res[n].v.flows) < NumFlows(res)

DelayOf(f) == f.avg_delay

\* one per-flow table: a row per flow index, a cell per loaded variant
PerFlowTable(res, Field(_)) ==
    [r \in 1..NumFlows(res) |->
        [rtt |-> res[1].v.flows[r].rtt_ms,
         cells |-> [c \in 1..Len(Present(variants, res)) |->
                       Field(Get(res, Present(variants, res)[c]).flows[r])]]]

\* the three per-flow tables (throughput, loss rate, delay)
MrPrintPerFlowTables ==
    /\ driver = "mr" /\ pc = "print_tables"
    /\ IF NoResults(all_results) \/ ShortVariant(all_results)
       THEN /\ Crash("IndexError")
            /\ out' = Append(out, Ev("table_header", "throughput", Present(variants, all_results)))
       ELSE /\ out' = out \o
                  <<Ev("perflow_table", "throughput", PerFlowTable(all_results, Throughput)),
                    Ev("perflow_table", "loss_rate", PerFlowTable(all_results, LossRate)),
                    Ev("perflow_table", "avg_delay", PerFlowTable(all_results, DelayOf))>>
            /\ pc' = "print_aggregate"
            /\ UNCHANGED <<exc, exit_code>>
    /\ UNCHANGED <<driver, matplotlib, skip_sim, HAS_MATPLOTLIB, i, simState,
                   success_count, simulation_success, disk, results, perflow_data,
                   all_results, fnVars>>

\* AGGREGATE STATISTICS: a column per loaded variant, in the order of variants
StatsColumns(res) ==
    [n \in 1..Len(Present(variants, res)) |->
        Ev("summary_row", Present(variants, res)[n],
           <<Get(res, Present(variants, res)[n]).stats>>)]

\* p[1]/p[2] > q[1]/q[2] for positive denominators
FracGreater(p, q) == p[1] * q[2] > q[1] * p[2]

\* max(fairness_scores.items(), key=...): the first maximal entry
BestFairness(res) ==
    LET order == Present(variants, res)
        fair(v) == Get(res, v).stats.fairness
    IN order[CHOOSE n \in 1..Len(order) :
                /\ \A m \in 1..Len(order) : ~FracGreater(fair(order[m]), fair(order[n]))
                /\ \A m \in 1..(n - 1) : FracGreater(fair(order[n]), fair(order[m]))]

\* mutant: the division is not guarded
BiasUnguarded(flows) ==
    [inf |-> FALSE, ratio |-> <<flows[1].throughput, flows[Len(flows)].throughput>>]

\* bias = low / high if high > 0 else float('inf')
Bias(flows) ==
    LET low_rtt_tput == flows[1].throughput
        high_rtt_tput == flows[Len(flows)].throughput
    IN IF high_rtt_tput > 0
       THEN [inf |-> FALSE, ratio |-> <<low_rtt_tput, high_rtt_tput>>]
       ELSE [inf |-> TRUE, ratio |-> <<0, 1>>]

BiasLines(res) ==
    [n \in 1..Len(Present(variants, res)) |->
        Ev("bias", Present(variants, res)[n],
           <<Bias(Get(res, Present(variants, res)[n]).flows)>>)]

\* aggregate statistics table, best-of analysis and RTT bias lines
MrPrintAggregate ==
    /\ driver = "mr" /\ pc = "print_aggregate"
    /\ out' = out \o <<Ev("summary_table", "", <<>>)>>
                  \o StatsColumns(all_results)
                  \o <<Ev("best_fairness", BestFairness(all_results), <<>>)>>
                  \o BiasLines(all_results)
    /\ pc' = "plot_comparisons"
    /\ UNCHANGED <<driver, matplotlib, skip_sim, HAS_MATPLOTLIB, i, simState,
                   success_count, simulation_success, disk, results, perflow_data,
                   all_results, exc, exit_code, fnVars>>

-----------------------------------------------------------------------------
(* tcp-multi-rtt STEP 3: plots *)

\* plot_throughput_comparison, plot_delay_comparison, plot_loss_comparison:
\* bars per key of all_results, num_flows taken from the first key
MrPlotComparisons ==
    /\ driver = "mr" /\ pc = "plot_comparisons"
    /\ IF ShortVariant(all_results)
       THEN /\ Crash("IndexError")
            /\ UNCHANGED <<out, i>>
       ELSE /\ out' = out \o
                  <<Ev("chart", "throughput_comparison", Keys(all_results)),
                    Ev("chart", "delay_comparison", Keys(all_results)),
                    Ev("chart", "loss_comparison", Keys(all_results))>>
            /\ pc' = "plot_cwnd"
            /\ i' = 1
            /\ UNCHANGED <<exc, exit_code>>
    /\ UNCHANGED <<driver, matplotlib, skip_sim, HAS_MATPLOTLIB, simState,
                   success_count, simulation_success, disk, results, perflow_data,
                   all_results, fnVars>>

CwndSubplots == 4    \* plt.subplots(2, 2)

\* one iteration of the loop over variants around plot_cwnd_progress; the
\* trace files of the flows are read when the plot is drawn
MrPlotCwnd ==
    /\ driver = "mr" /\ pc = "plot_cwnd"
    /\ IF ~Has(all_results, Current)
       THEN UNCHANGED <<out, exc, exit_code>>
            /\ IF i = N THEN pc' = "finish" /\ i' = 1
                        ELSE pc' = pc /\ i' = i + 1
       ELSE \E files \in [1..NumFlows(all_results) -> CwndFiles] :
              IF \E k \in 1..NumFlows(all_results) : read_cwnd_data(files[k]).exc # "none"
              THEN /\ Crash("ValueError")
                   /\ UNCHANGED <<out, i>>
              ELSE IF NumFlows(all_results) > CwndSubplots
              THEN /\ Crash("IndexError")
                   /\ UNCHANGED <<out, i>>
              ELSE /\ out' = Append(out,
                              Ev("chart", "cwnd_progress",
                                 <<Current,
                                   {k \in 1..NumFlows(all_results) :
                                       /\ ~read_cwnd_data(files[k]).none
                                       /\ Len(read_cwnd_data(files[k]).val.times) > 0}>>))
                   /\ UNCHANGED <<exc, exit_code>>
                   /\ IF i = N THEN pc' = "finish" /\ i' = 1
                               ELSE pc' = pc /\ i' = i + 1
    /\ UNCHANGED <<driver, matplotlib, skip_sim, HAS_MATPLOTLIB, simState,
                   success_count, simulation_success, disk, results, perflow_data,
                   all_results, fnVars>>

\* main returns 0 and sys.exit passes it on
MrFinish ==
    /\ driver = "mr" /\ pc = "finish"
    /\ out' = Append(out, Ev("done", "", <<>>))
    /\ pc' = "done"
    /\ exit_code' = 0
    /\ UNCHANGED <<driver, matplotlib, skip_sim, HAS_MATPLOTLIB, i, simState,
                   success_count, simulation_success, disk, results, perflow_data,
                   all_results, exc, fnVars>>

-----------------------------------------------------------------------------
(* The pipeline specification *)

Next ==
    \/ OgStart
    \/ MrStart
    \/ RunSimulationCall
    \/ SimulatorExits
    \/ SimulatorLaunchFails
    \/ SimulatorTimesOut
    \/ OgRunSimulationReturn
    \/ MrRunSimulationReturn
    \/ OgRunLoopExit
    \/ MrRunLoopExit
    \/ OgLoadAggregate
    \/ OgLoadPerflow
    \/ OgCheckResults
    \/ print_summary
    \/ generate_aggregate_plots
    \/ generate_perflow_comparison_plots
    \/ generate_cwnd_plots
    \/ OgFinish
    \/ MrLoadResults
    \/ MrCheckResults
    \/ MrPrintPerFlowTables
    \/ MrPrintAggregate
    \/ MrPlotComparisons
    \/ MrPlotCwnd
    \/ MrFinish

Spec == Init /\ [][Next]_vars

-----------------------------------------------------------------------------
(* Function-level specifications: one function applied to one input *)

\* no script is running
PipeIdle ==
    /\ driver = "none"
    /\ matplotlib = FALSE
    /\ skip_sim = FALSE
    /\ HAS_MATPLOTLIB = FALSE
    /\ pc = "idle"
    /\ i = 1
    /\ simState = <<>>
    /\ success_count = 0
    /\ simulation_success = <<>>
    /\ disk = <<>>
    /\ results = <<>>
    /\ perflow_data = <<>>
    /\ all_results = <<>>
    /\ out = <<>>
    /\ exc = "none"
    /\ exit_code = -1

\* flow records as read_results builds them, flow k with this throughput
StatFlow(k, tput) == ResultRecord(ResultRow(k, tput))

StatInputs ==
    UNION {{[k \in 1..n |-> StatFlow(k, t[k])] : t \in [1..n -> 0..MaxStatTput]} :
           n \in 0..MaxStatFlows}

InitStats ==
    /\ PipeIdle
    /\ fn = "none"
    /\ arg \in StatInputs
    /\ ret = <<>>

ApplyCalculateStats ==
    /\ fn = "none"
    /\ fn' = "calculate_stats"
    /\ ret' = calculate_stats(arg)
    /\ UNCHANGED <<arg, pipeVars>>

NextStats == ApplyCalculateStats

SpecStats == InitStats /\ [][NextStats]_vars

\* lines of a congestion-window trace: line k is "k 10k" when well formed
CwndLine(k) == <<FloatTok(k), IntTok(10 * k)>>

CwndLineChoices(k) ==
    {CwndLine(k),
     <<JunkTok, IntTok(10 * k)>>,
     <<FloatTok(k), JunkTok>>,
     <<FloatTok(k), FloatTok(10 * k)>>,
     <<HashTok, JunkTok>>}

RowSeqs(Choices(_)) ==
    UNION {{rows \in [1..n -> UNION {Choices(k) : k \in 1..n}] :
               \A k \in 1..n : rows[k] \in Choices(k)} :
           n \in 0..MaxParseRows}

PerflowRowChoices(k) == {PerflowRow(k), BadPerflowRow(k)}
ResultRowChoices(k) == {ResultRow(k, 1), BadResultRow(k)}

ParseInputs ==
    {[kind |-> "perflow", file |-> File(rows)] : rows \in RowSeqs(PerflowRowChoices)}
    \cup {[kind |-> "results", file |-> File(rows)] : rows \in RowSeqs(ResultRowChoices)}
    \cup {[kind |-> "cwnd", file |-> File(rows)] : rows \in RowSeqs(CwndLineChoices)}
    \cup {[kind |-> k, file |-> NoFile] : k \in {"perflow", "results", "cwnd"}}

InitParse ==
    /\ PipeIdle
    /\ fn = "none"
    /\ arg \in ParseInputs
    /\ ret = <<>>

ApplyParsePerflowCsv ==
    /\ fn = "none" /\ arg.kind = "perflow"
    /\ fn' = "parse_perflow_csv"
    /\ ret' = parse_perflow_csv(arg.file)
    /\ UNCHANGED <<arg, pipeVars>>

ApplyReadResults ==
    /\ fn = "none" /\ arg.kind = "results"
    /\ fn' = "read_results"
    /\ ret' = read_results(arg.file)
    /\ UNCHANGED <<arg, pipeVars>>

ApplyReadCwndData ==
    /\ fn = "none" /\ arg.kind = "cwnd"
    /\ fn' = "read_cwnd_data"
    /\ ret' = read_cwnd_data(arg.file)
    /\ UNCHANGED <<arg, pipeVars>>

ApplyParseCwndFile ==
    /\ fn = "none" /\ arg.kind = "cwnd"
    /\ fn' = "parse_cwnd_file"
    /\ ret' = parse_cwnd_file(arg.file)
    /\ UNCHANGED <<arg, pipeVars>>

NextParse ==
    \/ ApplyParsePerflowCsv
    \/ ApplyReadResults
    \/ ApplyReadCwndData
    \/ ApplyParseCwndFile

SpecParse == InitParse /\ [][NextParse]_vars

\* calculate_stats on its own and as the drivers call it
InitCallers == Init \/ InitStats

NextCallers ==
    \/ driver \in Drivers /\ Next
    \/ driver = "none" /\ NextStats

SpecCallers == InitCallers /\ [][NextCallers]_vars

-----------------------------------------------------------------------------
(* reno-equilibrium/run_and_plot.py: run, parse, plot *)

Reno == "reno-equilibrium"

\* contents of results/reno-equilibrium/cwnd_trace.txt
TraceFiles == {NoFile} \cup {File(rows) : rows \in RowSeqs(CwndLineChoices)}

InitReno ==
    /\ driver = "rn"
    /\ matplotlib \in BOOLEAN
    /\ skip_sim = FALSE
    /\ HAS_MATPLOTLIB = FALSE
    /\ pc = "start"
    /\ i = 1
    /\ simState = [v \in {Reno} |-> "notrun"]
    /\ success_count = 0
    /\ simulation_success = <<>>
    /\ disk \in [{"cwnd_trace"} -> TraceFiles]
    /\ results = <<>>
    /\ perflow_data = <<>>
    /\ all_results = <<>>
    /\ out = <<>>
    /\ exc = "none"
    /\ exit_code = -1
    /\ FnIdle

\* exit(1): SystemExit ends the interpreter with status 1
Exit1 == pc' = "exited" /\ exc' = "SystemExit" /\ exit_code' = 1

\* "import matplotlib.pyplot as plt" at the top of the script, not guarded
RenoStart ==
    /\ driver = "rn" /\ pc = "start"
    /\ IF matplotlib
       THEN pc' = "run" /\ UNCHANGED <<exc, exit_code>>
       ELSE Crash("ImportError")
    /\ UNCHANGED <<driver, matplotlib, skip_sim, HAS_MATPLOTLIB, i, simState,
                   success_count, simulation_success, disk, results, perflow_data,
                   all_results, out, fnVars>>

\* run_ns3_simulation up to the call of subprocess.run
RenoRunCall ==
    /\ driver = "rn" /\ pc = "run"
    /\ simState' = [simState EXCEPT ![Reno] = "running"]
    /\ out' = Append(out, Ev("run_simulation", Reno, <<>>))
    /\ pc' = "in_run"
    /\ UNCHANGED <<driver, matplotlib, skip_sim, HAS_MATPLOTLIB, i, success_count,
                   simulation_success, disk, results, perflow_data, all_results,
                   exc, exit_code, fnVars>>

\* environment: the simulator exits; a run that exits 0 has rewritten the trace
RenoSimulatorExits ==
    /\ driver = "rn" /\ simState[Reno] = "running"
    /\ \/ /\ simState' = [simState EXCEPT ![Reno] = "ok"]
          /\ disk' \in [{"cwnd_trace"} -> TraceFiles]
       \/ /\ simState' = [simState EXCEPT ![Reno] = "nonzero"]
          /\ UNCHANGED disk
    /\ UNCHANGED <<driver, matplotlib, skip_sim, HAS_MATPLOTLIB, pc, i,
                   success_count, simulation_success, results, perflow_data,
                   all_results, out, exc, exit_code, fnVars>>

\* environment: ./ns3 cannot be executed
RenoSimulatorLaunchFails ==
    /\ driver = "rn" /\ simState[Reno] = "running"
    /\ simState' = [simState EXCEPT ![Reno] = "launch_error"]
    /\ UNCHANGED <<driver, matplotlib, skip_sim, HAS_MATPLOTLIB, pc, i,
                   success_count, simulation_success, disk, results,
                   perflow_data, all_results, out, exc, exit_code, fnVars>>

\* run_ns3_simulation after subprocess.run: no check=True and no try, so a
\* non-zero return code is tested by hand and a launch error propagates
run_ns3_simulation ==
    /\ driver = "rn" /\ pc = "in_run"
    /\ SubprocessReturned(simState[Reno])
    /\ IF simState[Reno] = "launch_error"
       THEN Crash("OSError") /\ UNCHANGED out
       ELSE IF simState[Reno] # "ok"
       THEN Exit1 /\ out' = Append(out, Ev("sim_report", Reno, <<simState[Reno]>>))
       ELSE /\ pc' = "parse"
            /\ out' = Append(out, Ev("sim_report", Reno, <<"ok">>))
            /\ UNCHANGED <<exc, exit_code>>
    /\ UNCHANGED <<driver, matplotlib, skip_sim, HAS_MATPLOTLIB, i, simState,
                   success_count, simulation_success, disk, results, perflow_data,
                   all_results, fnVars>>

\* times, cwnds = parse_cwnd_file("results/reno-equilibrium/cwnd_trace.txt")
RenoParse ==
    /\ driver = "rn" /\ pc = "parse"
    /\ LET r == parse_cwnd_file(disk["cwnd_trace"])
       IN IF r.exc # "none"
          THEN /\ Exit1
               /\ out' = Append(out, Ev("not_found", "cwnd_trace", <<"trace">>))
               /\ UNCHANGED results
          ELSE /\ results' = <<Entry("cwnd_trace", r.val)>>
               /\ out' = out \o <<Ev("open", "cwnd_trace", <<"trace">>),
                                  Ev("parsed", "cwnd_trace", <<Len(r.val.times)>>)>>
               /\ pc' = "plot"
               /\ UNCHANGED <<exc, exit_code>>
    /\ UNCHANGED <<driver, matplotlib, skip_sim, HAS_MATPLOTLIB, i, simState,
                   success_count, simulation_success, disk, perflow_data,
                   all_results, fnVars>>

\* plot_cwnd: plt.plot(times, cwnds) raises ValueError when the two lists
\* differ in length, before savefig
plot_cwnd ==
    /\ driver = "rn" /\ pc = "plot"
    /\ LET times == results[1].v.times
           cwnds == results[1].v.cwnds
       IN IF Len(times) # Len(cwnds)
          THEN Crash("ValueError") /\ UNCHANGED out
          ELSE /\ out' = Append(out, Ev("chart", "cwnd_plot", <<Len(times)>>))
               /\ pc' = "finish"
               /\ UNCHANGED <<exc, exit_code>>
    /\ UNCHANGED <<driver, matplotlib, skip_sim, HAS_MATPLOTLIB, i, simState,
                   success_count, simulation_success, disk, results, perflow_data,
                   all_results, fnVars>>

\* the last print; the script ends with status 0
RenoFinish ==
    /\ driver = "rn" /\ pc = "finish"
    /\ out' = Append(out, Ev("done", "", <<>>))
    /\ pc' = "done"
    /\ exit_code' = 0
    /\ UNCHANGED <<driver, matplotlib, skip_sim, HAS_MATPLOTLIB, i, simState,
                   success_count, simulation_success, disk, results, perflow_data,
                   all_results, exc, fnVars>>

NextReno ==
    \/ RenoStart
    \/ RenoRunCall
    \/ RenoSimulatorExits
    \/ RenoSimulatorLaunchFails
    \/ run_ns3_simulation
    \/ RenoParse
    \/ plot_cwnd
    \/ RenoFinish

SpecReno == InitReno /\ [][NextReno]_vars

-----------------------------------------------------------------------------
(* Observations on a run *)

Terminated == pc \in {"done", "crashed"}
Outcomes == {"ok", "nonzero", "timeout", "launch_error"}
FailedOutcomes == {"nonzero", "timeout", "launch_error"}

\* the dict of usable configurations of the running driver
Usable == IF driver = "og" THEN results ELSE all_results

EvIn(ev, v) == \E n \in 1..Len(out) : out[n].ev = ev /\ out[n].v = v
AnyEv(ev) == \E n \in 1..Len(out) : out[n].ev = ev

\* the existence of the variant's file of this kind has been tested
LoadAttempted(v, kind) ==
    \E n \in 1..Len(out) :
        /\ out[n].ev \in {"open", "not_found"}
        /\ out[n].v = v
        /\ out[n].data = <<kind>>

\* the variant's file of this kind has been opened for parsing
Opened(v) == EvIn("open", v)

\* steps that belong to loading, analysis or rendering
PostRunEvents ==
    {"open", "not_found", "loaded", "parse_error", "no_results", "summary_table",
     "summary_row", "comparison", "comparison_lines", "perflow_table", "table_header", "best_fairness",
     "bias", "chart", "no_data_to_plot", "done"}

-----------------------------------------------------------------------------
(* Claims *)

\* C1 (as stated): in both drivers, a run that times out, exits non-zero or
\* fails to launch is reported, and the simulator is still run for the next
\* configuration: once the script has ended, every variant after a variant
\* that reached an outcome has been run, and every failed run has a report.
C1_FailedRunDoesNotStopBatch ==
    Terminated =>
        /\ \A n \in 1..(N - 1) :
              simState[Variants(driver)[n]] \in Outcomes
                  => simState[Variants(driver)[n + 1]] # "notrun"
        /\ \A v \in VariantSet(driver) :
              simState[v] \in FailedOutcomes => EvIn("sim_report", v)

C3_FailedRunResultsUnavailable ==
    driver = "og" =>
        \A v \in VariantSet(driver) :
            simState[v] = "nonzero" =>
                /\ ~Opened(v)
                /\ ~Has(results, v)
                /\ ~Has(perflow_data, v)
                /\ ~EvIn("summary_row", v)

\* C4 (as stated): when main has returned, the exit status is non-zero
\* exactly when no configuration produced usable results.
C4_ExitCodeNonZeroIffNoResults ==
    pc = "done" => (exit_code # 0 <=> Usable = <<>>)

\* every variant's result file has been tested and, if present, parsed
LoadComplete ==
    \/ pc \in {"check_results", "print_summary", "print_tables", "print_aggregate",
               "plot_aggregate", "plot_perflow", "plot_comparisons", "plot_cwnd",
               "finish"}
    \/ pc = "load_perflow"
    \/ pc = "done" /\ ~AnyEv("some_simulations_failed")

\* every summary row of variant v shows exactly this record
RowsShow(v, rec) ==
    \A n \in 1..Len(out) :
        (out[n].ev = "summary_row" /\ out[n].v = v) => out[n].data = <<rec>>

\* C6: a variant whose aggregate file (og-sim-2: <variant>_fanout.csv,
\* tcp-multi-rtt: <variant>_results.csv) is missing is never in the results
\* dict, the summary table, the comparison or the aggregate chart; every
\* other variant's record is the parse of its own file alone, is loaded
\* whenever that file parses, and is what its summary row shows; a missing
\* file raises no exception and does not turn the exit status of a run with
\* usable results non-zero.
C6_MissingAggregateExcluded ==
    /\ driver = "og" =>
          \A v \in VariantSet(driver) :
              /\ Has(results, v) =>
                    /\ disk[v].agg.exists
                    /\ Get(results, v) = parse_csv(disk[v].agg).val[1]
                    /\ RowsShow(v, Get(results, v))
              /\ ~Has(results, v) =>
                    /\ ~EvIn("summary_row", v)
                    /\ ~AnyEv("comparison")
                    /\ \A n \in 1..Len(out) :
                          (out[n].ev = "chart" /\ out[n].v = "tcp_comparison_aggregate")
                              => ~InSeq(out[n].data, v)
              /\ (LoadComplete /\ ~parse_csv(disk[v].agg).none) => Has(results, v)
    /\ driver = "mr" =>
          \A v \in VariantSet(driver) :
              /\ Has(all_results, v) =>
                    /\ disk[v].results.exists
                    /\ Get(all_results, v).flows = read_results(disk[v].results).val
                    /\ Get(all_results, v).stats
                          = calculate_stats(read_results(disk[v].results).val).val
                    /\ RowsShow(v, Get(all_results, v).stats)
              /\ ~Has(all_results, v) =>
                    /\ ~EvIn("summary_row", v)
                    /\ ~EvIn("bias", v)
              /\ (LoadComplete /\ Truthy(read_results(disk[v].results)))
                    => Has(all_results, v)
    /\ exc # "FileNotFoundError"
    /\ (pc = "done" /\ Usable # <<>>) => exit_code = 0

\* C6 witness: og-sim-2 ended with LinuxReno's aggregate file missing and
\* Fast loaded and shown in the summary table.
C6_Witness ==
    /\ driver = "og" /\ pc = "done"
    /\ ~disk["LinuxReno"].agg.exists
    /\ Has(results, "Fast")
    /\ EvIn("summary_row", "Fast")
    /\ ~EvIn("summary_row", "LinuxReno")

\* C7: at most one simulator process runs at a time, a variant's run starts
\* only after the previous variant's run has an outcome, and no step of
\* loading, analysis or rendering happens while a run is in progress or
\* before every variant has been run (unless runs are skipped).
C7_RunsNeverConcurrent ==
    /\ Cardinality({v \in VariantSet(driver) : simState[v] = "running"}) <= 1
    /\ \A n \in 1..(N - 1) :
          simState[Variants(driver)[n + 1]] # "notrun"
              => simState[Variants(driver)[n]] \in Outcomes
    /\ (\E n \in 1..Len(out) : out[n].ev \in PostRunEvents) =>
          \A v \in VariantSet(driver) :
              /\ simState[v] # "running"
              /\ ~skip_sim => simState[v] \in Outcomes

\* C7 witness: a result file is opened after both runs have ended, the first
\* of them by a timeout.
C7_Witness ==
    /\ ~skip_sim
    /\ simState[Variants(driver)[1]] = "timeout"
    /\ simState[Variants(driver)[2]] \in Outcomes
    /\ AnyEv("open")

\* C8: a chart is written, and a rendering step is entered, only with at
\* least one usable configuration; a main that returns with none has
\* reported why and has written no chart.
C8_ChartsOnlyWithData ==
    /\ AnyEv("chart") => Usable # <<>>
    /\ pc \in {"plot_aggregate", "plot_perflow", "plot_comparisons", "plot_cwnd"}
          => Usable # <<>>
    /\ (pc = "done" /\ Usable = <<>>) =>
          /\ AnyEv("no_results") \/ AnyEv("some_simulations_failed")
          /\ ~AnyEv("chart")
          /\ ~AnyEv("no_data_to_plot")

\* C8 witness: every file was looked for, none was usable, and main returned
\* after reporting it.
C8_Witness ==
    /\ pc = "done" /\ Usable = <<>>
    /\ AnyEv("no_results")
    /\ \E v \in VariantSet(driver) : Opened(v)

\* C9 (as stated): every main that returns has printed the summary table.
C9_SummaryAlwaysPrinted ==
    pc = "done" => AnyEv("summary_table")

\* C9 (amended): a main that returns with at least one usable configuration
\* has printed the summary table with a row for each of them (og-sim-2 has
\* printed it also when an exception ends the script later); a main that
\* returns with no usable configuration has reported that and has printed no
\* summary table.
C9_SummaryPrintedWhenUsable ==
    /\ (pc = "done" /\ Usable # <<>>) =>
          /\ AnyEv("summary_table")
          /\ \A n \in 1..Len(Usable) : EvIn("summary_row", Usable[n].k)
    /\ (driver = "og" /\ pc \in {"done", "crashed", "finish"} /\ results # <<>>)
          => AnyEv("summary_table")
    /\ (pc = "done" /\ Usable = <<>>) =>
          /\ ~AnyEv("summary_table")
          /\ AnyEv("no_results") \/ AnyEv("some_simulations_failed")

\* C9 witness: og-sim-2 returned after a failed run with one of the two
\* variants usable and its row in the summary table.
C9_Witness ==
    /\ driver = "og" /\ pc = "done"
    /\ \E v \in VariantSet(driver) : simState[v] \in FailedOutcomes
    /\ Len(results) = 1
    /\ AnyEv("summary_table")
    /\ EvIn("summary_row", results[1].k)

-----------------------------------------------------------------------------
(* Claims on the parsers and on calculate_stats *)

\* the rows of a file on which every numeric conversion of the parser succeeds
WellFormedPerflow(file) == MapSeq(SelectSeq(file.rows, PerflowRowOK), PerflowRecord)
WellFormedResults(file) == MapSeq(SelectSeq(file.rows, ResultRowOK), ResultRecord)

FloatPair(line) == CwndLineUsed(line) /\ float_ok(line[1]) /\ float_ok(line[2])
FloatIntPair(line) == Len(line) = 2 /\ float_ok(line[1]) /\ int_ok(line[2])

WellFormedSamples(file, OK(_)) ==
    [times |-> MapSeq(SelectSeq(file.rows, OK), First),
     cwnds |-> MapSeq(SelectSeq(file.rows, OK), Second)]

\* C5 (as stated): each parser, applied to an existing file, raises nothing
\* and returns exactly the well-formed rows' records, in file order.
C5_MalformedRowsSkipped ==
    (fn # "none" /\ arg.file.exists) =>
        /\ ret.exc = "none"
        /\ ~ret.none
        /\ fn = "parse_perflow_csv" => ret.val = WellFormedPerflow(arg.file)
        /\ fn = "read_results" => ret.val = WellFormedResults(arg.file)
        /\ fn = "read_cwnd_data" => ret.val = WellFormedSamples(arg.file, FloatPair)
        /\ fn = "parse_cwnd_file" => ret.val = WellFormedSamples(arg.file, FloatIntPair)

Tputs == MapSeq(arg, Throughput)
AllEqual(s) == \A a, b \in 1..Len(s) : s[a] = s[b]
AllZero(s) == \A a \in 1..Len(s) : s[a] = 0

\* the fairness value p/q lies in (0, 1] and is 1 exactly for equal inputs
FairnessInRange(r, s) ==
    /\ r.exc = "none"
    /\ r.val.fairness[2] > 0
    /\ r.val.fairness[1] > 0
    /\ r.val.fairness[1] <= r.val.fairness[2]
    /\ (r.val.fairness[1] = r.val.fairness[2]) <=> AllEqual(s)

\* C10 (as stated): for every non-empty sequence of throughputs the fairness
\* index is defined, lies in (0, 1] and is 1 exactly when all are equal.
C10_FairnessDefinedOnNonEmpty ==
    (fn = "calculate_stats" /\ Len(arg) > 0) => FairnessInRange(ret, Tputs)

\* calculate_stats away from the all-zero input: for a non-empty sequence of
\* non-negative throughputs that are not all zero the index is
\* (sum x)^2 / (n * sum x^2), lies in (0, 1] and is 1 exactly when all are
\* equal; [1,2,3] gives 36/42; the all-zero input divides by zero.
C10_FairnessOnNonZero ==
    fn = "calculate_stats" =>
        /\ (Len(arg) > 0 /\ ~AllZero(Tputs)) =>
              /\ FairnessInRange(ret, Tputs)
              /\ ret.val.fairness
                    = <<Square(SumSeq(Tputs)), Len(Tputs) * SumSeq(MapSeq(Tputs, Square))>>
        /\ Tputs = <<1, 2, 3>> => ret.val.fairness = <<36, 42>>
        /\ (Len(arg) > 0 /\ AllZero(Tputs)) => ret.exc = "ZeroDivisionError"

\* {1,1,1,7} has been given a fairness below 1.
C10_Witness ==
    /\ fn = "calculate_stats"
    /\ Tputs = <<1, 1, 1, 7>>
    /\ ret.exc = "none"
    /\ ret.val.fairness[1] < ret.val.fairness[2]

-----------------------------------------------------------------------------
(* Claims on the comparison of the two configurations *)

\* the numeric fields of the two loaded aggregate records are the same
SameAggregate(res) ==
    /\ Get(res, "LinuxReno").total_throughput = Get(res, "Fast").total_throughput
    /\ Get(res, "LinuxReno").avg_delay = Get(res, "Fast").avg_delay
    /\ Get(res, "LinuxReno").loss_rate = Get(res, "Fast").loss_rate

\* print_summary has been left, by returning or by an exception
SummaryLeft ==
    driver = "og" /\ results # <<>>
        /\ pc \in {"plot_aggregate", "plot_perflow", "plot_cwnd", "finish", "done", "crashed"}

\* C11 (as stated): d(a, a) = 0 for every baseline a, a = 0 included: when
\* print_summary has compared two configurations with the same throughput,
\* delay and loss rate, the three differences it computed are all zero.
C11_SelfDifferenceIsZero ==
    (SummaryLeft /\ Comparable(results) /\ SameAggregate(results)) =>
        \E n \in 1..Len(out) :
            /\ out[n].ev = "comparison"
            /\ \A k \in 1..3 : out[n].data[k][1] = 0 /\ out[n].data[k][2] # 0

\* the records of the scenario: A = {10.0, 20.0, 1.0}, B = {12.0, 18.0, 0.5}
ScenarioAB ==
    /\ Comparable(results)
    /\ Get(results, "LinuxReno").total_throughput = 100
    /\ Get(results, "LinuxReno").avg_delay = 200
    /\ Get(results, "LinuxReno").loss_rate = 10
    /\ Get(results, "Fast").total_throughput = 120
    /\ Get(results, "Fast").avg_delay = 180
    /\ Get(results, "Fast").loss_rate = 5

\* C12: with A = {total 10.0, delay 20.0, loss 1.0} as baseline and
\* B = {12.0, 18.0, 0.5}, print_summary prints throughput +20.0%, delay
\* -10.0% and loss -50.0% (the loss difference is -50000/1001 = -49.95..%
\* before it is formatted to one decimal).
C12_ScenarioDeltas ==
    (SummaryLeft /\ ScenarioAB) =>
        /\ \E n \in 1..Len(out) :
              /\ out[n].ev = "comparison_lines"
              /\ out[n].data = <<200, -100, -500>>
        /\ \E n \in 1..Len(out) :
              /\ out[n].ev = "comparison"
              /\ out[n].data = <<(<<2000, 100>>), (<<-2000, 200>>), (<<-50000, 1001>>)>>

\* C12 witness: the scenario has been compared and the script went on.
C12_Witness ==
    /\ ScenarioAB
    /\ pc = "done"
    /\ AnyEv("comparison_lines")

-----------------------------------------------------------------------------
(* Claims on ordering *)

IsPrefix(s, t) == Len(s) <= Len(t) /\ \A n \in 1..Len(s) : s[n] = t[n]

\* the variants named by the events of one kind, in the order of the output
VariantsOf(ev) == MapSeq(SelectSeq(out, LAMBDA e : e.ev = ev), LAMBDA e : e.v)

\* the variants of the per-variant congestion-window images, in output order
CwndImages ==
    MapSeq(SelectSeq(out, LAMBDA e : e.ev = "chart" /\ e.v = "cwnd_progress"),
           LAMBDA e : e.data[1])

\* the declared order restricted to the usable configurations
DeclaredUsable == Present(Variants(driver), Usable)

\* C13: the simulator is invoked in the declared order of the configuration
\* list, and the summary rows, the per-flow table columns, the bias lines,
\* the bar groups of every comparison chart and the per-variant images
\* follow the declared order restricted to the configurations with data.
C13_DeclaredOrderPreserved ==
    /\ IsPrefix(VariantsOf("run_simulation"), Variants(driver))
    /\ VariantsOf("summary_row") \in {<<>>, DeclaredUsable}
    /\ VariantsOf("bias") \in {<<>>, DeclaredUsable}
    /\ IsPrefix(CwndImages, DeclaredUsable)
    /\ \A n \in 1..Len(out) :
          /\ (out[n].ev = "chart" /\ out[n].v = "tcp_comparison_aggregate")
                => out[n].data = Present(TCP_VARIANTS, results)
          /\ (out[n].ev = "chart"
                /\ out[n].v \in {"throughput_comparison_flows", "delay_comparison_flows"})
                => out[n].data = Present(TCP_VARIANTS, perflow_data)
          /\ (out[n].ev = "chart"
                /\ out[n].v \in {"throughput_comparison", "delay_comparison",
                                  "loss_comparison"})
                => out[n].data = Present(variants, all_results)
          /\ (out[n].ev = "perflow_table" /\ out[n].v = "throughput")
                => \A r \in 1..Len(out[n].data) :
                      /\ Len(out[n].data[r].cells) = Len(DeclaredUsable)
                      /\ \A c \in 1..Len(DeclaredUsable) :
                            out[n].data[r].cells[c]
                                = Get(all_results, DeclaredUsable[c]).flows[r].throughput

\* C13 witness: og-sim-2 ran both variants and ended with only the second
\* declared variant in the aggregate results and both in the per-flow data,
\* all charts written.
C13_Witness ==
    /\ driver = "og" /\ pc = "done" /\ ~skip_sim
    /\ Keys(results) = <<"Fast">>
    /\ Keys(perflow_data) = TCP_VARIANTS
    /\ EvIn("summary_row", "Fast")
    /\ EvIn("chart", "throughput_comparison_flows")
    /\ CwndImages = <<"Fast">>

-----------------------------------------------------------------------------
(* Claims on rendering *)

\* a rendering function has been entered
RenderingEntered ==
    \/ pc \in {"plot_perflow", "plot_cwnd"}
    \/ AnyEv("chart") \/ AnyEv("no_data_to_plot")

\* C14 (as stated): in the rendering step a configuration with no per-flow
\* file, with fewer flow records than another or with a missing trace file
\* only loses its own bars or series: rendering raises no IndexError, and a
\* main that ran to its end has written the per-flow comparison charts for
\* the configurations that have per-flow data and an image per usable
\* configuration.
C14_PartialRenderCompletes ==
    /\ (RenderingEntered /\ pc = "crashed") => exc # "IndexError"
    /\ (driver = "og" /\ HAS_MATPLOTLIB /\ pc = "done" /\ perflow_data # <<>>
            /\ results # <<>>)
          => /\ EvIn("chart", "throughput_comparison_flows")
             /\ EvIn("chart", "delay_comparison_flows")
    /\ (pc = "done" /\ Usable # <<>> /\ (driver = "og" => HAS_MATPLOTLIB))
          => CwndImages = DeclaredUsable

\* C15 (as stated): when matplotlib cannot be imported every driver still
\* runs without failing and produces the textual summary only: no
\* ImportError ends the script, no image is written, and a main that
\* returns with usable results has printed the summary table.
C15_TextOnlyWithoutPlotting ==
    ~matplotlib =>
        /\ exc # "ImportError"
        /\ ~AnyEv("chart")
        /\ (pc = "done" /\ Usable # <<>>) => AnyEv("summary_table")

\* og-sim-2 without matplotlib: the guarded import leaves HAS_MATPLOTLIB
\* false, the summary is printed and no rendering function is entered.
OgTextOnlyWithoutPlotting ==
    (driver = "og" /\ ~matplotlib) =>
        /\ ~HAS_MATPLOTLIB
        /\ exc # "ImportError"
        /\ ~AnyEv("chart")
        /\ pc \notin {"plot_aggregate", "plot_perflow", "plot_cwnd"}
        /\ (pc = "done" /\ results # <<>>) => AnyEv("summary_table") /\ exit_code = 0

-----------------------------------------------------------------------------
(* Claims on the skip flag *)

\* positions in the output at which the simulator was invoked for variant v
RunsOf(v) == {n \in 1..Len(out) : out[n].ev = "run_simulation" /\ out[n].v = v}

\* positions in the output at which a result file was looked for
Loads == {n \in 1..Len(out) : out[n].ev \in {"open", "not_found"}}

\* C16: with --skip-sim the simulator is never invoked and the driver still
\* looks for every result file, prints the summary and renders from what it
\* finds; without the flag the simulator has been invoked exactly once for
\* every configuration before the first result file is looked for.
C16_SkipFlag ==
    /\ skip_sim =>
          /\ ~AnyEv("run_simulation")
          /\ \A v \in VariantSet(driver) : simState[v] = "notrun"
          /\ Terminated =>
                \A v \in VariantSet(driver) :
                    LoadAttempted(v, "agg") /\ LoadAttempted(v, "perflow")
          /\ (pc = "done" /\ results # <<>>) =>
                /\ AnyEv("summary_table")
                /\ HAS_MATPLOTLIB => EvIn("chart", "tcp_comparison_aggregate")
    /\ (~skip_sim /\ Loads # {}) =>
          \A v \in VariantSet(driver) :
              /\ Cardinality(RunsOf(v)) = 1
              /\ \A n \in RunsOf(v) : \A m \in Loads : n < m

\* C16 witness: with --skip-sim the driver ended after summarising and
\* rendering the files it found.
C16_Witness ==
    /\ skip_sim /\ pc = "done"
    /\ ~AnyEv("run_simulation")
    /\ AnyEv("summary_table")
    /\ EvIn("chart", "tcp_comparison_aggregate")

-----------------------------------------------------------------------------
(* Claims on the RTT bias ratio and on empty flow sequences *)

\* the throughput column of row k of the variant's results file
FileThroughput(v, k) == disk[v].results.rows[k].Throughput_Mbps.val
LastRow(v) == Len(disk[v].results.rows)

\* C17: the RTT bias printed for a configuration is the throughput of the
\* first flow of its results file over that of the last flow, and +infinity
\* when the last flow's throughput is zero; the bias step raises nothing,
\* and it prints a line for every loaded configuration.
C17_BiasRatio ==
    driver = "mr" =>
        /\ \A n \in 1..Len(out) :
              out[n].ev = "bias" =>
                  LET v == out[n].v
                  IN out[n].data =
                        <<IF FileThroughput(v, LastRow(v)) = 0
                          THEN [inf |-> TRUE, ratio |-> <<0, 1>>]
                          ELSE [inf |-> FALSE,
                                ratio |-> <<FileThroughput(v, 1),
                                            FileThroughput(v, LastRow(v))>>]>>
        /\ pc \in {"plot_comparisons", "plot_cwnd", "finish"}
              => VariantsOf("bias") = Present(variants, all_results)
        /\ (AnyEv("summary_table") /\ pc = "crashed") => exc # "ZeroDivisionError"

\* C17 witness: a configuration whose last flow has zero throughput and whose
\* first flow has not was reported with an infinite bias, and main went on
\* to its end.
C17_Witness ==
    /\ driver = "mr" /\ pc = "done"
    /\ \E n \in 1..Len(out) :
          /\ out[n].ev = "bias"
          /\ out[n].data[1].inf
          /\ FileThroughput(out[n].v, 1) > 0
          /\ FileThroughput(out[n].v, LastRow(out[n].v)) = 0

\* C18: calculate_stats returns no statistics for an empty flow sequence, it
\* raises (ZeroDivisionError from total / len(throughputs)); and the driver
\* never calls it with an empty sequence: a results file without data rows
\* is skipped, every loaded configuration has at least one flow, and a
\* division error while loading comes from a non-empty sequence.
C18_NoStatsForEmptyFlows ==
    /\ (fn = "calculate_stats" /\ arg = <<>>) =>
          /\ ret.exc = "ZeroDivisionError"
          /\ ret.val = <<>>
    /\ driver = "mr" =>
          /\ \A n \in 1..Len(all_results) : all_results[n].v.flows # <<>>
          /\ \A v \in VariantSet(driver) :
                (disk[v].results.exists /\ disk[v].results.rows = <<>>)
                    => ~Has(all_results, v)
          /\ (pc = "crashed" /\ exc = "ZeroDivisionError" /\ ~AnyEv("summary_table"))
                => disk[Current].results.rows # <<>>

\* C18 witness: calculate_stats was applied to the empty sequence and raised.
C18_Witness ==
    /\ fn = "calculate_stats"
    /\ arg = <<>>
    /\ ret.exc = "ZeroDivisionError"

\* the driver skipped a results file without data rows and went on
EmptyResultsFileSkipped ==
    /\ driver = "mr" /\ pc = "done" /\ exit_code = 0
    /\ \E v \in VariantSet(driver) :
          disk[v].results.exists /\ disk[v].results.rows = <<>>

-----------------------------------------------------------------------------
(* Claims on the reno-equilibrium script *)

\* positions in the output of the events of one kind
At(ev) == {n \in 1..Len(out) : out[n].ev = ev}

RenoEnded == pc \in {"done", "exited", "crashed"}

\* C19: the reno-equilibrium script runs, then parses, then plots, each step
\* only after the one before it succeeded: the trace file is looked for only
\* after a run that exited 0, a plot is written only after the trace was
\* parsed, a non-zero simulator exit ends the process with status 1 before
\* the trace is read, and a missing trace file ends it with status 1 before
\* any plot is written.
C19_RenoRunParsePlot ==
    driver = "rn" =>
        /\ \A m \in At("open") \cup At("not_found") :
              /\ simState[Reno] = "ok"
              /\ \E n \in At("run_simulation") : n < m
        /\ \A m \in At("chart") : \E n \in At("parsed") : n < m
        /\ At("not_found") # {} => At("open") = {} /\ At("chart") = {}
        /\ (simState[Reno] = "nonzero" /\ pc # "in_run") =>
              /\ pc = "exited" /\ exit_code = 1
              /\ At("open") = {} /\ At("not_found") = {} /\ At("chart") = {}
        /\ (simState[Reno] = "ok" /\ ~disk["cwnd_trace"].exists
                /\ pc \notin {"in_run", "parse"}) =>
              /\ pc = "exited" /\ exit_code = 1
              /\ At("not_found") # {}
              /\ At("chart") = {}
        /\ (RenoEnded /\ exit_code = 0) =>
              At("run_simulation") # {} /\ At("parsed") # {} /\ At("chart") # {}

\* C19 witness: the simulator exited 0, the trace file was missing and the
\* script ended with status 1 without a plot.
C19_Witness ==
    /\ driver = "rn" /\ pc = "exited" /\ exit_code = 1
    /\ simState[Reno] = "ok"
    /\ At("not_found") # {}
    /\ At("chart") = {}

\* the script ended after a non-zero simulator exit, the trace file untouched
RenoNonZeroExit ==
    /\ driver = "rn" /\ pc = "exited" /\ exit_code = 1
    /\ simState[Reno] = "nonzero"
    /\ disk["cwnd_trace"].exists

====
